---- MODULE Spec2Model ----
(***************************************************************************)
(* Power indices of a weighted voting game: banzhaf_custom,                *)
(* shapley_custom and shapley_dp of power_index_calculator.py.             *)
(*                                                                         *)
(* Players are numbered 1..n here (Python: 0..n-1); weights is the tuple   *)
(* of their weights.  The dp table keeps Python's indices: rows 0..n-1     *)
(* and columns 0..quota-1.  A quotient c / d of two integers is kept       *)
(* exactly, as the pair <<c, d>>; the literal 0.0 is <<0, 1>>.             *)
(***************************************************************************)
EXTENDS Integers, Sequences, FiniteSets

VARIABLES weights, quota, pc, engine, counts, values, err, i, j, dp

vars == <<weights, quota, pc, engine, counts, values, err, i, j, dp>>

\* ------------------------------------------------------------------ bounds
MaxN == 4
MaxWeight == 2
MaxQuota == 4

\* ----------------------------------------------------------------- helpers
RECURSIVE SumSeq(_)
SumSeq(s) == IF s = <<>> THEN 0 ELSE Head(s) + SumSeq(Tail(s))

RECURSIVE factorial(_)
factorial(k) == IF k = 0 THEN 1 ELSE k * factorial(k - 1)

\* [0] * n
Zeros(n) == [p \in 1..n |-> 0]

\* c / d on numbers, exact
Div(c, d) == <<c, d>>

\* the float literal 0.0
Zero == <<0, 1>>

\* the loop over a coalition's members started one member late
InTuple_skipFirst(p, t) == \E x \in 2..Len(t) : t[x] = p

\* for i in coalition: player p is one of the members the loop visits
InTuple(p, t) == \E x \in 1..Len(t) : t[x] = p

\* ---------------------------------------------------------- banzhaf_custom
\* itertools.combinations over lo..hi, size k: increasing tuples, in
\* lexicographic order
RECURSIVE combinations(_, _, _)
combinations(lo, hi, k) ==
    IF k = 0 THEN << <<>> >>
    ELSE IF hi - lo + 1 < k THEN << >>
    ELSE LET withLo == combinations(lo + 1, hi, k - 1)
             withoutLo == combinations(lo + 1, hi, k)
         IN  [x \in 1..Len(withLo) |-> <<lo>> \o withLo[x]] \o withoutLo

\* range(1, num_parties): the grand coalition is never visited
CoalitionSizes_short(num_parties) == 1..(num_parties - 1)

\* the values of coalition_size the outer loop takes
CoalitionSizes(num_parties) == 1..num_parties

\* every coalition the two nested loops visit, in the order they visit it
RECURSIVE CoalitionsFrom(_, _)
CoalitionsFrom(num_parties, size) ==
    IF size \notin CoalitionSizes(num_parties) THEN << >>
    ELSE combinations(1, num_parties, size) \o CoalitionsFrom(num_parties, size + 1)

Coalitions(num_parties) == CoalitionsFrom(num_parties, 1)

\* sum(weights[i] for i in coalition)
RECURSIVE CoalitionWeight(_, _)
CoalitionWeight(w, coalition) ==
    IF coalition = <<>> THEN 0
    ELSE w[Head(coalition)] + CoalitionWeight(w, Tail(coalition))

\* <= in place of <
IsCritical_le(w, q, coalition_weight, p) == coalition_weight - w[p] <= q

\* the test that makes player p critical in a winning coalition
IsCritical(w, q, coalition_weight, p) == coalition_weight - w[p] < q

\* the body of the inner loop for one coalition
ScanCoalition(w, q, cc, coalition) ==
    LET coalition_weight == CoalitionWeight(w, coalition)
    IN  IF coalition_weight < q THEN cc
        ELSE [p \in DOMAIN cc |->
                IF InTuple(p, coalition) /\ IsCritical(w, q, coalition_weight, p)
                THEN cc[p] + 1 ELSE cc[p]]

RECURSIVE ScanAll(_, _, _, _)
ScanAll(w, q, cc, coalitions) ==
    IF coalitions = <<>> THEN cc
    ELSE ScanAll(w, q, ScanCoalition(w, q, cc, Head(coalitions)), Tail(coalitions))

critical_counts(w, q) == ScanAll(w, q, Zeros(Len(w)), Coalitions(Len(w)))

\* the division without its guard against a zero total
banzhaf_values_unguarded(cc) == [p \in DOMAIN cc |-> Div(cc[p], SumSeq(cc))]

banzhaf_values(cc) ==
    LET total_critical == SumSeq(cc)
    IN  [p \in DOMAIN cc |-> IF total_critical # 0 THEN Div(cc[p], total_critical) ELSE Zero]

\* ---------------------------------------------------------- shapley_custom
RemoveAt(s, k) == SubSeq(s, 1, k - 1) \o SubSeq(s, k + 1, Len(s))

\* itertools.permutations(pool), in the order it yields them
RECURSIVE permutations(_)
RECURSIVE PermsFrom(_, _)
PermsFrom(pool, k) ==
    IF k > Len(pool) THEN << >>
    ELSE LET rest == permutations(RemoveAt(pool, k))
         IN  [x \in 1..Len(rest) |-> <<pool[k]>> \o rest[x]] \o PermsFrom(pool, k + 1)
permutations(pool) == IF pool = <<>> THEN << <<>> >> ELSE PermsFrom(pool, 1)

\* the walk along one ordering: the player at which cumulative first reaches
\* quota, 0 when the walk ends without one
RECURSIVE Pivot(_, _, _, _)
\* > in place of >=
Pivot_gt(w, q, ordering, cumulative) ==
    IF ordering = <<>> THEN 0
    ELSE LET c == cumulative + w[Head(ordering)]
         IN  IF c > q THEN Head(ordering)
             ELSE Pivot(w, q, Tail(ordering), c)

Pivot(w, q, ordering, cumulative) ==
    IF ordering = <<>> THEN 0
    ELSE LET c == cumulative + w[Head(ordering)]
         IN  IF c >= q THEN Head(ordering)
             ELSE Pivot(w, q, Tail(ordering), c)

RECURSIVE WalkAll(_, _, _, _)
WalkAll(w, q, pcnt, orderings) ==
    IF orderings = <<>> THEN pcnt
    ELSE LET player == Pivot(w, q, Head(orderings), 0)
         IN  WalkAll(w, q,
                     [p \in DOMAIN pcnt |-> IF p = player THEN pcnt[p] + 1 ELSE pcnt[p]],
                     Tail(orderings))

pivotal_counts(w, q) ==
    WalkAll(w, q, Zeros(Len(w)), permutations([p \in 1..Len(w) |-> p]))

shapley_values(pcnt) ==
    LET total_permutations == factorial(Len(pcnt))
    IN  [p \in DOMAIN pcnt |->
            IF total_permutations # 0 THEN Div(pcnt[p], total_permutations) ELSE Zero]

\* -------------------------------------------------------------- shapley_dp
\* range(start, -1, -1) as the tuple of the values it yields
RangeDown(start) == [x \in 1..(start + 1) |-> start + 1 - x]

\* dp = [[0] * quota for _ in range(n)]
NewTable(n, q) == [s \in 0..(n - 1) |-> [t \in 0..(q - 1) |-> 0]]

\* Python accepts index k of a list of length len when -len <= k < len
IndexOk(k, len) == -len <= k /\ k < len

\* dp[0][0] = 1 raises IndexError when the table has no cell (0, 0)
InitRaises(n, q) == ~(IndexOk(0, n) /\ IndexOk(0, q))

\* the values s and t take in the update loops for a player of weight wj
\* the size loop run upwards, range(0, n-1)
FoldSRange_up(n) == [x \in 1..(n - 1) |-> x - 1]

FoldSRange(n) == RangeDown(n - 2)
FoldTRange(q, wj) == RangeDown(q - 1 - wj)

\* the cells (row, column) the update loops for weight wj read or write
FoldAccesses(n, q, wj) ==
    UNION {{<<FoldSRange(n)[a], FoldTRange(q, wj)[b]>>,
            <<FoldSRange(n)[a] + 1, FoldTRange(q, wj)[b] + wj>>} :
           a \in DOMAIN FoldSRange(n), b \in DOMAIN FoldTRange(q, wj)}

\* the update loops raise IndexError when a subscript is out of range
FoldRaises(n, q, wj) ==
    \E c \in FoldAccesses(n, q, wj) : ~(IndexOk(c[1], n) /\ IndexOk(c[2], q))

\* dp[s+1][t+wj] += dp[s][t]
AddCell(table, s, t, wj) ==
    [table EXCEPT ![s + 1][t + wj] = table[s + 1][t + wj] + table[s][t]]

RECURSIVE FoldT(_, _, _, _)
FoldT(table, s, wj, ts) ==
    IF ts = <<>> THEN table
    ELSE FoldT(AddCell(table, s, Head(ts), wj), s, wj, Tail(ts))

RECURSIVE FoldS(_, _, _, _)
FoldS(table, ss, wj, ts) ==
    IF ss = <<>> THEN table
    ELSE FoldS(FoldT(table, Head(ss), wj, ts), Tail(ss), wj, ts)

\* the two update loops for one other player of weight wj, in place
Fold(table, n, q, wj) == FoldS(table, FoldSRange(n), wj, FoldTRange(q, wj))

\* < in place of the first <=
IsPivotal_lt(q, w, t) == q - w < t /\ t <= q - 1

\* quota - w <= t <= quota-1
IsPivotal(q, w, t) == q - w <= t /\ t <= q - 1

\* the orderings of the players after the pivot left out
Contribution_noTail(table, n, q, w, s, t) ==
    IF IsPivotal(q, w, t) /\ table[s][t] # 0
    THEN table[s][t] * factorial(s)
    ELSE 0

Contribution(table, n, q, w, s, t) ==
    IF IsPivotal(q, w, t) /\ table[s][t] # 0
    THEN table[s][t] * factorial(s) * factorial(n - s - 1)
    ELSE 0

RECURSIVE CountT(_, _, _, _, _, _)
CountT(table, n, q, w, s, t) ==
    IF t >= q THEN 0
    ELSE Contribution(table, n, q, w, s, t) + CountT(table, n, q, w, s, t + 1)

RECURSIVE CountS(_, _, _, _, _)
CountS(table, n, q, w, s) ==
    IF s >= n THEN 0
    ELSE CountT(table, n, q, w, s, 0) + CountS(table, n, q, w, s + 1)

\* what the counting loops add to pivotal_counts[i] for a player of weight w
PivotCount(table, n, q, w) == CountS(table, n, q, w, 0)

dp_values(pcnt) == [p \in DOMAIN pcnt |-> Div(pcnt[p], factorial(Len(pcnt)))]

\* ------------------------------------------------------------------- games
Tuples(S, maxLen) == UNION {[1..n -> S] : n \in 0..maxLen}

\* the weight lists and quotas a caller passes: the functions check nothing,
\* so negative weights, quota 0 and the empty list are among them
SmallGames ==
    {<<w, q>> : w \in Tuples(-1..MaxWeight, MaxN), q \in 0..MaxQuota}

\* games too large to enumerate: every player of weight 1
LargeGames ==
    {<<[p \in 1..n |-> 1], q>> : n \in {13, 21}, q \in 1..MaxQuota}

N == Len(weights)

\* ----------------------------------------------------------------- actions
Init ==
    /\ \E g \in SmallGames \cup LargeGames : weights = g[1] /\ quota = g[2]
    /\ pc = "idle"
    /\ engine = "none"
    /\ counts = <<>>
    /\ values = <<>>
    /\ err = "none"
    /\ i = 0
    /\ j = 0
    /\ dp = <<>>

\* banzhaf_custom is called: num_parties, critical_counts = [0] * num_parties
BanzhafEnter ==
    /\ pc = "idle"
    /\ pc' = "banzhaf_scan"
    /\ engine' = "banzhaf_custom"
    /\ counts' = Zeros(N)
    /\ UNCHANGED <<weights, quota, values, err, i, j, dp>>

\* the coalition loops, the normalisation and the return
BanzhafScan ==
    /\ pc = "banzhaf_scan"
    /\ N <= MaxN
    /\ counts' = critical_counts(weights, quota)
    /\ values' = banzhaf_values(counts')
    /\ pc' = "done"
    /\ UNCHANGED <<weights, quota, engine, err, i, j, dp>>

\* shapley_custom is called: num_parties, pivotal_counts = [0] * num_parties
ShapleyEnter ==
    /\ pc = "idle"
    /\ pc' = "shapley_scan"
    /\ engine' = "shapley_custom"
    /\ counts' = Zeros(N)
    /\ UNCHANGED <<weights, quota, values, err, i, j, dp>>

\* the permutation loop, the normalisation and the return
ShapleyScan ==
    /\ pc = "shapley_scan"
    /\ N <= MaxN
    /\ counts' = pivotal_counts(weights, quota)
    /\ values' = shapley_values(counts')
    /\ pc' = "done"
    /\ UNCHANGED <<weights, quota, engine, err, i, j, dp>>

\* shapley_dp is called: n, total_permutations, pivotal_counts = [0] * n
DPEnter ==
    /\ pc = "idle"
    /\ N <= MaxN
    /\ pc' = "dp_player"
    /\ engine' = "shapley_dp"
    /\ counts' = Zeros(N)
    /\ i' = 1
    /\ UNCHANGED <<weights, quota, values, err, j, dp>>

\* the outer loop takes player i: a fresh table, dp[0][0] = 1
DPNewTable ==
    /\ pc = "dp_player"
    /\ i <= N
    /\ IF InitRaises(N, quota)
       THEN /\ pc' = "raised"
            /\ err' = "IndexError"
            /\ UNCHANGED <<j, dp>>
       ELSE /\ pc' = "dp_fold"
            /\ dp' = [NewTable(N, quota) EXCEPT ![0][0] = 1]
            /\ j' = 1
            /\ UNCHANGED err
    /\ UNCHANGED <<weights, quota, engine, counts, values, i>>

\* one pass of the loop over the other players: player j is skipped when it
\* is i, and folded into the table otherwise
DPFold ==
    /\ pc = "dp_fold"
    /\ j <= N
    /\ IF j = i
       THEN /\ j' = j + 1
            /\ UNCHANGED <<pc, err, dp>>
       ELSE IF FoldRaises(N, quota, weights[j])
       THEN /\ pc' = "raised"
            /\ err' = "IndexError"
            /\ UNCHANGED <<j, dp>>
       ELSE /\ dp' = Fold(dp, N, quota, weights[j])
            /\ j' = j + 1
            /\ UNCHANGED <<pc, err>>
    /\ UNCHANGED <<weights, quota, engine, counts, values, i>>

\* the counting loops for player i, then the outer loop moves on
DPCount ==
    /\ pc = "dp_fold"
    /\ j = N + 1
    /\ counts' = [counts EXCEPT ![i] = counts[i] + PivotCount(dp, N, quota, weights[i])]
    /\ i' = i + 1
    /\ pc' = "dp_player"
    /\ UNCHANGED <<weights, quota, engine, values, err, j, dp>>

\* the outer loop is over: normalise and return
DPReturn ==
    /\ pc = "dp_player"
    /\ i = N + 1
    /\ values' = dp_values(counts)
    /\ pc' = "done"
    /\ UNCHANGED <<weights, quota, engine, counts, err, i, j, dp>>

Next ==
    \/ BanzhafEnter
    \/ BanzhafScan
    \/ ShapleyEnter
    \/ ShapleyScan
    \/ DPEnter
    \/ DPNewTable
    \/ DPFold
    \/ DPCount
    \/ DPReturn

Spec == Init /\ [][Next]_vars

\* ------------------------------------------------------------- properties
Players == 1..N

\* a game the data model accepts: at least one player, no negative weight,
\* a positive quota
ValidGame ==
    /\ N >= 1
    /\ \A p \in Players : weights[p] >= 0
    /\ quota >= 1

Returned(e) == pc = "done" /\ engine = e

IsZero(v) == v[1] = 0 /\ v[2] # 0
IsOne(v) == v[1] = v[2] /\ v[2] # 0

\* the total weight of a set of players
RECURSIVE SetWeight(_)
SetWeight(S) ==
    IF S = {} THEN 0
    ELSE LET p == CHOOSE x \in S : TRUE
         IN  weights[p] + SetWeight(S \ {p})

\* C1: for a valid game of at most 10 players shapley_dp returns, and its
\* pivotal counts are, player by player, the counts the enumeration of all
\* orderings gives.
C1_DPEqualsBrute ==
    (ValidGame /\ N <= 10 /\ engine = "shapley_dp") =>
        /\ pc # "raised"
        /\ pc = "done" => counts = pivotal_counts(weights, quota)

C1_Witness ==
    /\ ValidGame
    /\ Returned("shapley_dp")
    /\ N >= 3
    /\ \E p, r \in Players : 0 < counts[p] /\ counts[p] < counts[r]

\* C2: a game with a negative weight, a quota <= 0 or no player is refused
\* with InvalidGameError: no engine returns a result for it, and no other
\* error ends the call.
C2_InvalidGameRefused ==
    ~ValidGame =>
        /\ pc # "done"
        /\ pc = "raised" => err = "InvalidGameError"

\* C3: when the weights are non-negative, the quota is >= 1 and the quota
\* exceeds the total weight, no engine raises, and what an engine returns is
\* all zero: every raw count and every normalized value.
Degenerate ==
    /\ \A p \in Players : weights[p] >= 0
    /\ quota >= 1
    /\ quota > SumSeq(weights)

C3_DegenerateAllZero ==
    Degenerate =>
        /\ pc # "raised"
        /\ pc = "done" =>
              /\ Len(counts) = N
              /\ Len(values) = N
              /\ \A p \in Players : counts[p] = 0 /\ IsZero(values[p])

C3_Witness ==
    /\ Degenerate
    /\ pc = "done"
    /\ N >= 2
    /\ \E p \in Players : weights[p] > 0

\* C4: for a valid game, when the raw counts an engine returns sum to more
\* than 0, every normalized value is the raw count over that sum: the divisor
\* the engine used is the sum of its raw counts, and the values sum to 1.
C4_NormalizedBySum ==
    (ValidGame /\ pc = "done" /\ SumSeq(counts) > 0) =>
        /\ \A p \in Players : values[p] = Div(counts[p], SumSeq(counts))
        /\ SumSeq([p \in Players |-> values[p][1]]) = values[1][2]

C4_Witness ==
    /\ ValidGame
    /\ Returned("shapley_dp")
    /\ N >= 3
    /\ SumSeq(counts) > 0
    /\ \E p, r \in Players : 0 < counts[p] /\ counts[p] < counts[r]

\* C5: for a valid game, a player of weight 0 has raw count 0 and normalized
\* value 0 in what any of the three engines returns.
C5_DummyPlayer ==
    (ValidGame /\ pc = "done") =>
        \A p \in Players :
            weights[p] = 0 => counts[p] = 0 /\ IsZero(values[p])

C5_Witness ==
    /\ ValidGame
    /\ Returned("banzhaf_custom")
    /\ \E p, r \in Players :
          /\ weights[p] = 0
          /\ counts[r] > 0
          /\ SumSeq(weights) = quota

\* C6: for a valid game, two players of equal weight get equal raw counts and
\* equal normalized values from each engine, wherever they stand in the list.
C6_Anonymity ==
    (ValidGame /\ pc = "done") =>
        \A p, r \in Players :
            weights[p] = weights[r] =>
                counts[p] = counts[r] /\ values[p] = values[r]

C6_Witness ==
    /\ ValidGame
    /\ Returned("banzhaf_custom")
    /\ \E p, r, x \in Players :
          /\ p < x /\ x < r
          /\ weights[p] = weights[r]
          /\ weights[x] # weights[p]
          /\ counts[p] > 0
          /\ counts[x] > 0
          /\ counts[x] # counts[p]

\* C7: for a valid game in which one player's weight alone reaches the quota
\* and the other players together do not, that player's normalized value is 1
\* and every other player has raw count 0 and normalized value 0, from each
\* engine.
IsDictator(d) ==
    /\ weights[d] >= quota
    /\ SumSeq(weights) - weights[d] < quota

C7_Dictator ==
    (ValidGame /\ pc = "done") =>
        \A d \in Players :
            IsDictator(d) =>
                /\ IsOne(values[d])
                /\ \A p \in Players \ {d} : counts[p] = 0 /\ IsZero(values[p])

C7_Witness ==
    /\ ValidGame
    /\ Returned("shapley_custom")
    /\ N >= 3
    /\ \E d \in Players :
          /\ IsDictator(d)
          /\ d > 1
          /\ weights[d] = quota
          /\ \E p \in Players \ {d} : weights[p] > 0

\* C8: a brute-force engine called with more players than its ceiling (20 for
\* banzhaf_custom, 12 for shapley_custom) ends in CombinatorialOverflowError
\* and never starts its enumeration.
C8_OversizeRefused ==
    (\/ engine = "banzhaf_custom" /\ N > 20
     \/ engine = "shapley_custom" /\ N > 12) =>
        pc = "raised" /\ err = "CombinatorialOverflowError"

\* C9: for a valid game the count banzhaf_custom returns for a player is the
\* number of non-empty coalitions that hold the player, reach the quota and
\* fall below it without the player; the loops visit each of the 2^n - 1
\* non-empty coalitions exactly once.
CriticalCoalitions(p) ==
    {S \in SUBSET Players :
        /\ S # {}
        /\ p \in S
        /\ SetWeight(S) >= quota
        /\ SetWeight(S) - weights[p] < quota}

TupleSet(t) == {t[x] : x \in DOMAIN t}

C9_CriticalCount ==
    (ValidGame /\ Returned("banzhaf_custom")) =>
        /\ \A p \in Players : counts[p] = Cardinality(CriticalCoalitions(p))
        /\ LET visited == Coalitions(N)
           IN  /\ Len(visited) = 2^N - 1
               /\ {TupleSet(visited[x]) : x \in DOMAIN visited} = (SUBSET Players) \ {{}}
               /\ \A x \in DOMAIN visited : Len(visited[x]) = Cardinality(TupleSet(visited[x]))

C9_Witness ==
    /\ ValidGame
    /\ Returned("banzhaf_custom")
    /\ N >= 3
    /\ \E p, r \in Players : 0 < counts[p] /\ counts[p] < counts[r]
    /\ \E S \in SUBSET Players : S # {} /\ SetWeight(S) < quota

\* C10: in shapley_dp, for a valid game, after any prefix of the other players
\* is folded in, dp[s][t] is the number of s-element sets of the folded
\* players of total weight t, for every row 0..n-1 and column 0..quota-1; the
\* table has no other cell; the next fold touches no cell outside it, and
\* leaves the table as it is when the folded weight is >= quota.
Folded == (1..(j - 1)) \ {i}

SubsetCount(s, t) ==
    Cardinality({S \in SUBSET Folded : Cardinality(S) = s /\ SetWeight(S) = t})

C10_TableCounts ==
    (ValidGame /\ pc = "dp_fold") =>
        /\ DOMAIN dp = 0..(N - 1)
        /\ \A s \in 0..(N - 1) :
              /\ DOMAIN dp[s] = 0..(quota - 1)
              /\ \A t \in 0..(quota - 1) : dp[s][t] = SubsetCount(s, t)
        /\ (j <= N /\ j # i) =>
              /\ FoldAccesses(N, quota, weights[j]) \subseteq (0..(N - 1)) \X (0..(quota - 1))
              /\ ~FoldRaises(N, quota, weights[j])
              /\ weights[j] >= quota => Fold(dp, N, quota, weights[j]) = dp

C10_Witness ==
    /\ ValidGame
    /\ pc = "dp_fold"
    /\ j = N + 1
    /\ \E k \in Folded : weights[k] >= quota
    /\ \E s \in 1..(N - 1), t \in 0..(quota - 1) : dp[s][t] >= 2

====
